---- MODULE Spec2Model ----
(***************************************************************************)
(* LazyTransform<T, S, FN> of src/src/lazy_transform.rs: a pending-source  *)
(* slot, a cached-value slot and a try-lock latch shared by any number of  *)
(* threads calling set_source and get_transformed.                         *)
(*                                                                         *)
(* Every atomic operation of the code on a shared location is one step of  *)
(* the calling thread; the steps of different threads interleave freely.   *)
(* The three locations are modelled as sequentially consistent; the        *)
(* Relaxed pre-check of get_transformed is a step of its own, so what it   *)
(* saw may be stale by the time the latch is tried and the slot drained.   *)
(* Heap boxes (Owned::new) are numbered in allocation order, and the epoch *)
(* scheme is modelled as: a retired box is freed only when no thread that  *)
(* was pinned at the time of retirement is still pinned.                   *)
(***************************************************************************)
EXTENDS Integers, FiniteSets

\* --------------------------------------------------------------- bounds
NThreads == 2
MaxSources == 2

Threads == 1..NThreads
SrcIds == 1..MaxSources
ValIds == 1..MaxSources
\* The sources published: an odd one and two even ones.
SourceVals == {1, 2, 4}

\* ------------------------------------------------------------ constants
Null == 0        \* Atomic::null() / Shared::null()
None == 0        \* Option::None of an Option<T>; Some(v) is v, v > 0
NoDecl == 0 - 1  \* "no declined transform on record"
Panicked == 0 - 2  \* ret[t] after a call that unwound out of a panic of transform_fn

\* The transform function bound at construction: double even integers,
\* decline odd ones.
transform_fn(s) == IF s % 2 = 0 THEN 2 * s ELSE None

VARIABLES
    pc,              \* pc[t]: where thread t is in get_transformed
    source,          \* LazyTransform.source: Null or the id of a source box
    value,           \* LazyTransform.value: Null or the id of a value box
    transform_lock,  \* LightLock.0
    alive,           \* the LazyTransform has not been destroyed
    nSrc,            \* number of source boxes allocated so far
    srcVal,          \* srcVal[k]: the S stored in source box k
    srcBox,          \* srcBox[k]: "none", "live", "retired", "freed", "double"
    srcData,         \* srcData[k]: who owns the S: "none", "inbox", "moved", "dropped", "dup"
    srcWait,         \* srcWait[k]: threads pinned at retirement and still pinned
    nVal,            \* number of value boxes allocated so far
    valVal,          \* valVal[j]: the T stored in value box j
    valBox,          \* valBox[j]: "none", "live", "retired", "freed", "double"
    valWait,         \* valWait[j]: threads pinned at retirement and still pinned
    local_source,    \* try_transform's `source`: the drained pointer
    source_data,     \* try_transform's `source_data`
    newval,          \* try_transform's result
    local_value,     \* the pointer loaded from the cached slot by the fallback
    ret,             \* ret[t]: what t's last get_transformed returned (None while
                     \* a call of t is running)
    \* history variables
    coalesced,       \* sources superseded inside a burst of set_source calls
    quiet,           \* no get_transformed has been active since the last set_source
    solo,            \* solo[t]: no other operation since t's current/last call began
    startVal,        \* startVal[t]: the pending S when t's solo call began, or 0
    declVal,         \* cached slot when a transform last declined, NoDecl once a
                     \* later transform has succeeded
    gotSome,         \* gotSome[t]: some get_transformed of t has returned Some
    stale,           \* stale[t]: t's call declined, or began after a decline, and
                     \* no transform has succeeded since
    seen,            \* seen[t]: the value box t's last return duplicated (Null: None)
    valFrom,         \* valFrom[j]: the source box value box j was computed from
    published,       \* the S values passed to set_source so far
    holder,          \* the thread whose try_lock took the latch (0: nobody)
    lost             \* lost[t]: t's try_lock found the latch taken (this call)

vars == <<pc, source, value, transform_lock, alive, nSrc, srcVal, srcBox, srcData,
          srcWait, nVal, valVal, valBox, valWait, local_source, source_data, newval,
          local_value, ret, coalesced, quiet, solo, startVal, declVal,
          gotSome, stale, seen, valFrom, published, holder, lost>>

heapVars == <<nSrc, srcVal, srcBox, srcData, srcWait, nVal, valVal, valBox, valWait>>
srcVars == <<nSrc, srcVal, srcBox, srcData, srcWait>>
valVars == <<nVal, valVal, valBox, valWait>>
localVars == <<local_source, source_data, newval, local_value>>
histVars == <<coalesced, quiet, solo, startVal, declVal, gotSome>>

\* ------------------------------------------------------------- helpers
Pinned == {t \in Threads : pc[t] # "idle"}

\* guard.defer_destroy(p): a second retirement of the same box is a double release.
Retire(state) == IF state = "live" THEN "retired" ELSE "double"

\* guard.defer_destroy(p): the destruction waits for the threads pinned now.
DeferNow(pinned) == {}
DeferSet(pinned) == pinned

\* Dropping the epoch Guard: the thread no longer holds back any retired box.
Unpin(w, t) == [k \in DOMAIN w |-> w[k] \ {t}]

Init ==
    /\ pc = [t \in Threads |-> "idle"]
    /\ source = Null
    /\ value = Null
    /\ transform_lock = FALSE
    /\ alive = TRUE
    /\ nSrc = 0
    /\ srcVal = [k \in SrcIds |-> 0]
    /\ srcBox = [k \in SrcIds |-> "none"]
    /\ srcData = [k \in SrcIds |-> "none"]
    /\ srcWait = [k \in SrcIds |-> {}]
    /\ nVal = 0
    /\ valVal = [j \in ValIds |-> 0]
    /\ valBox = [j \in ValIds |-> "none"]
    /\ valWait = [j \in ValIds |-> {}]
    /\ local_source = [t \in Threads |-> Null]
    /\ source_data = [t \in Threads |-> 0]
    /\ newval = [t \in Threads |-> None]
    /\ local_value = [t \in Threads |-> Null]
    /\ ret = [t \in Threads |-> None]
    /\ coalesced = {}
    /\ quiet = FALSE
    /\ solo = [t \in Threads |-> FALSE]
    /\ startVal = [t \in Threads |-> 0]
    /\ declVal = NoDecl
    /\ gotSome = [t \in Threads |-> FALSE]
    /\ stale = [t \in Threads |-> FALSE]
    /\ seen = [t \in Threads |-> Null]
    /\ valFrom = [j \in ValIds |-> 0]
    /\ published = {}
    /\ holder = 0
    /\ lost = [t \in Threads |-> FALSE]


\* ---------------------------------------------------------- set_source
\* self.source.swap(source_ptr, AcqRel, &guard): the slot's new content.
SetSourceIfEmpty(old, new) == IF old = Null THEN new ELSE old
SetSourceSwap(old, new) == new

\* pub fn set_source(&self, source: S): pin, box the source, swap it into the
\* slot, retire the previous box if there was one, unpin.  The swap is the
\* call's only access to shared state, so the call is one step.
SetSource(t, s) ==
    /\ alive
    /\ pc[t] = "idle"
    /\ nSrc < MaxSources
    /\ LET k == nSrc + 1
           prev == source
       IN /\ nSrc' = k
          /\ srcVal' = [srcVal EXCEPT ![k] = s]
          /\ source' = SetSourceSwap(prev, k)
          /\ srcData' = [srcData EXCEPT ![k] = "inbox"]
          /\ IF prev # Null
             THEN /\ srcBox' = [srcBox EXCEPT ![k] = "live", ![prev] = Retire(srcBox[prev])]
                  /\ srcWait' = [srcWait EXCEPT ![prev] = DeferSet(Pinned \ {t})]
             ELSE /\ srcBox' = [srcBox EXCEPT ![k] = "live"]
                  /\ UNCHANGED srcWait
          /\ coalesced' = IF quiet /\ nSrc >= 1 THEN coalesced \cup {nSrc} ELSE coalesced
    /\ quiet' = (Pinned = {})
    /\ solo' = [u \in Threads |-> FALSE]
    /\ startVal' = [u \in Threads |-> 0]
    /\ UNCHANGED ret
    /\ UNCHANGED <<pc, value, transform_lock, alive, valVars, localVars, declVal, gotSome>>
    /\ published' = published \cup {s}
    /\ UNCHANGED <<stale, seen, valFrom, holder, lost>>

\* ------------------------------------------------------ get_transformed
\* let guard = epoch::pin(); let source = self.source.load(Relaxed, &guard);
\* if !source.is_null() { try_transform } else fall back to the cached value.
GetStart(t) ==
    /\ alive
    /\ pc[t] = "idle"
    /\ pc' = [pc EXCEPT ![t] = IF source # Null THEN "try_lock" ELSE "load_value"]
    /\ quiet' = FALSE
    /\ solo' = [u \in Threads |-> u = t /\ Pinned = {}]
    /\ startVal' = [u \in Threads |->
                       IF u = t /\ Pinned = {} /\ source # Null THEN srcVal[source] ELSE 0]
    /\ ret' = [ret EXCEPT ![t] = None]
    /\ UNCHANGED <<source, value, transform_lock, alive, heapVars, localVars, coalesced, declVal, gotSome>>
    /\ stale' = [stale EXCEPT ![t] = declVal # NoDecl]
    /\ UNCHANGED <<seen, valFrom, published, holder, lost>>

\* self.0.swap(true, Acquire): the flag's new content.
LockLoad(old) == old
LockToggle(old) == ~old
LockSwap(old) == TRUE

\* if was_locked { None } else { Some(LightGuard { lock: self }) }
TryLockSpin(was_locked) == IF was_locked THEN "try_lock" ELSE "swap_source"
TryLockIgnore(was_locked) == "swap_source"
TryLockNext(was_locked) == IF was_locked THEN "load_value" ELSE "swap_source"

\* LightLock::try_lock, called first thing by try_transform.
TryLock(t) ==
    /\ pc[t] = "try_lock"
    /\ LET was_locked == transform_lock
       IN /\ transform_lock' = LockSwap(was_locked)
          /\ pc' = [pc EXCEPT ![t] = TryLockNext(was_locked)]
    /\ UNCHANGED ret
    /\ UNCHANGED <<source, value, alive, heapVars, localVars, histVars>>
    /\ holder' = IF transform_lock THEN holder ELSE t
    /\ lost' = [lost EXCEPT ![t] = transform_lock]
    /\ UNCHANGED <<stale, seen, valFrom, published>>

\* transform_fn calls get_transformed of the same LazyTransform while its
\* thread holds the latch: the nested call sees a pending source, its
\* try_lock swaps true into the held flag, gets no guard, and the nested call
\* reads the cached value and returns into transform_fn.
ReentrantTryLock(t) ==
    /\ pc[t] = "transform"
    /\ source # Null
    /\ ~lost[t]
    /\ LET was_locked == transform_lock
       IN /\ transform_lock' = LockSwap(was_locked)
          /\ lost' = [lost EXCEPT ![t] = was_locked]
          /\ holder' = IF was_locked THEN holder ELSE t
    /\ UNCHANGED <<pc, ret, source, value, alive, heapVars, localVars, histVars>>
    /\ UNCHANGED <<stale, seen, valFrom, published>>

\* self.source.swap(Shared::null(), AcqRel, &guard): the slot's new content.
DrainLoad(old) == old
DrainSwap(old) == Null

\* Drain the pending-source slot; an empty slot returns None (through the
\* drop of the LightGuard), a drained box is handed to defer_destroy.
SwapSource(t) ==
    /\ pc[t] = "swap_source"
    /\ LET prev == source
       IN /\ source' = DrainSwap(prev)
          /\ IF prev = Null
             THEN /\ pc' = [pc EXCEPT ![t] = "unlock"]
                  /\ UNCHANGED <<srcBox, srcWait, local_source>>
             ELSE /\ pc' = [pc EXCEPT ![t] = "read_source"]
                  /\ srcBox' = [srcBox EXCEPT ![prev] = Retire(srcBox[prev])]
                  /\ srcWait' = [srcWait EXCEPT ![prev] = DeferSet(Pinned)]
                  /\ local_source' = [local_source EXCEPT ![t] = prev]
    /\ UNCHANGED ret
    /\ UNCHANGED <<value, transform_lock, alive, nSrc, srcVal, srcData, valVars,
                   source_data, newval, local_value, histVars>>
    /\ UNCHANGED <<stale, seen, valFrom, published, holder, lost>>

\* source_data = ManuallyDrop::into_inner(ptr::read(source.as_raw())): the S
\* is moved out of the box, which owns no S from here on; moving the S out
\* a second time duplicates it.
ReadSource(t) ==
    /\ pc[t] = "read_source"
    /\ LET k == local_source[t]
       IN /\ source_data' = [source_data EXCEPT ![t] = srcVal[k]]
          /\ srcData' = [srcData EXCEPT ![k] = IF srcData[k] = "inbox" THEN "moved" ELSE "dup"]
          /\ srcVal' = [srcVal EXCEPT ![k] = 0]
    /\ pc' = [pc EXCEPT ![t] = "transform"]
    /\ UNCHANGED ret
    /\ UNCHANGED <<source, value, transform_lock, alive, nSrc, srcBox, srcWait,
                   valVars, local_source, newval, local_value, histVars>>
    /\ UNCHANGED <<stale, seen, valFrom, published, holder, lost>>

\* match (self.transform_fn)(source_data) { Some(newval) => newval, None => return None }
TransformAlwaysPublish(r) == "swap_value"
TransformNext(r) == IF r = None THEN "unlock" ELSE "swap_value"

\* The call of transform_fn: the thread is inside transform_fn from the end
\* of ReadSource until this step.
Transform(t) ==
    /\ pc[t] = "transform"
    /\ LET r == transform_fn(source_data[t])
       IN /\ newval' = [newval EXCEPT ![t] = r]
          /\ pc' = [pc EXCEPT ![t] = TransformNext(r)]
          /\ declVal' = IF r = None THEN value ELSE declVal
    /\ UNCHANGED ret
    /\ UNCHANGED <<source, value, transform_lock, alive, heapVars, local_source,
                   source_data, local_value, coalesced, quiet, solo, startVal,
                   gotSome>>
    /\ stale' = IF transform_fn(source_data[t]) = None THEN [stale EXCEPT ![t] = TRUE] ELSE stale
    /\ UNCHANGED <<seen, valFrom, published, holder, lost>>

\* transform_fn panics instead of returning: try_transform and get_transformed
\* unwind, which drops _lock_guard and the epoch Guard (the Unlock step).  The
\* closure may panic on the sources it would otherwise decline.
TransformPanic(t) ==
    /\ pc[t] = "transform"
    /\ transform_fn(source_data[t]) = None
    /\ newval' = [newval EXCEPT ![t] = Panicked]
    /\ pc' = [pc EXCEPT ![t] = "unlock"]
    /\ UNCHANGED ret
    /\ UNCHANGED <<source, value, transform_lock, alive, heapVars, local_source,
                   source_data, local_value, histVars>>
    /\ UNCHANGED <<stale, seen, valFrom, published, holder, lost>>

\* self.value.swap(Owned::new(newval.clone()), AcqRel, &guard) and the
\* retirement of the previous value box.
SwapValue(t) ==
    /\ pc[t] = "swap_value"
    /\ LET j == nVal + 1
           prev == value
       IN /\ nVal' = j
          /\ valVal' = [valVal EXCEPT ![j] = newval[t]]
          /\ value' = j
          /\ IF prev # Null
             THEN /\ valBox' = [valBox EXCEPT ![j] = "live", ![prev] = Retire(valBox[prev])]
                  /\ valWait' = [valWait EXCEPT ![prev] = DeferSet(Pinned)]
             ELSE /\ valBox' = [valBox EXCEPT ![j] = "live"]
                  /\ UNCHANGED valWait
    /\ pc' = [pc EXCEPT ![t] = "unlock"]
    /\ declVal' = IF newval[t] # None THEN NoDecl ELSE declVal
    /\ UNCHANGED ret
    /\ UNCHANGED <<source, transform_lock, alive, srcVars, localVars, coalesced, quiet, solo, startVal, gotSome>>
    /\ stale' = IF newval[t] # None THEN [u \in Threads |-> FALSE] ELSE stale
    /\ valFrom' = [valFrom EXCEPT ![nVal + 1] = local_source[t]]
    /\ UNCHANGED <<seen, published, holder, lost>>

\* get_transformed returns r (or unwinds, r = Panicked): the epoch Guard is
\* dropped and the locals die.
Return(t, r) ==
    /\ pc' = [pc EXCEPT ![t] = "idle"]
    /\ ret' = [ret EXCEPT ![t] = r]
    /\ gotSome' = [gotSome EXCEPT ![t] = gotSome[t] \/ r \notin {None, Panicked}]
    /\ srcWait' = Unpin(srcWait, t)
    /\ valWait' = Unpin(valWait, t)
    /\ local_source' = [local_source EXCEPT ![t] = Null]
    /\ source_data' = [source_data EXCEPT ![t] = 0]
    /\ newval' = [newval EXCEPT ![t] = None]
    /\ local_value' = [local_value EXCEPT ![t] = Null]

\* impl Drop for LightGuard: self.lock.0.store(false, Release).
GuardLeak(lock) == lock
GuardDrop(lock) == FALSE

\* try_transform returns or unwinds and its _lock_guard goes out of scope;
\* get_transformed returns the new value if there is one, unwinds too after
\* a panic, and goes on to the cached value otherwise.
Unlock(t) ==
    /\ pc[t] = "unlock"
    /\ transform_lock' = GuardDrop(transform_lock)
    /\ IF newval[t] # None
       THEN Return(t, newval[t])
       ELSE /\ pc' = [pc EXCEPT ![t] = "load_value"]
            /\ UNCHANGED <<ret, gotSome, srcWait, valWait, localVars>>
    /\ UNCHANGED <<source, value, alive, nSrc, srcVal, srcBox, srcData, nVal, valVal,
                   valBox, coalesced, quiet, solo, startVal, declVal>>
    /\ holder' = IF holder = t THEN 0 ELSE holder
    /\ seen' = IF newval[t] \notin {None, Panicked} THEN [seen EXCEPT ![t] = value] ELSE seen
    /\ lost' = [lost EXCEPT ![t] = FALSE]
    /\ UNCHANGED <<stale, valFrom, published>>

\* self.value.load(Acquire, &guard).as_ref().map(T::clone)
FallbackNone(p) == None
FallbackResult(p) == IF p = Null THEN None ELSE valVal[p]

\* The fallback of get_transformed, first half: self.value.load(Acquire, &guard).
LoadValue(t) ==
    /\ pc[t] = "load_value"
    /\ local_value' = [local_value EXCEPT ![t] = value]
    /\ pc' = [pc EXCEPT ![t] = "clone_value"]
    /\ UNCHANGED <<source, value, transform_lock, alive, heapVars, local_source,
                   source_data, newval, ret, histVars>>
    /\ UNCHANGED <<stale, seen, valFrom, published, holder, lost>>

\* The fallback, second half: .as_ref().map(T::clone) reads the box the loaded
\* pointer names, and get_transformed returns the clone.
CloneValue(t) ==
    /\ pc[t] = "clone_value"
    /\ Return(t, FallbackResult(local_value[t]))
    /\ UNCHANGED <<source, value, transform_lock, alive, nSrc, srcVal, srcBox, srcData,
                   nVal, valVal, valBox, coalesced, quiet, solo, startVal, declVal>>
    /\ seen' = [seen EXCEPT ![t] = local_value[t]]
    /\ lost' = [lost EXCEPT ![t] = FALSE]
    /\ UNCHANGED <<stale, valFrom, published, holder>>

\* ------------------------------------------------- deferred reclamation
\* Dropping an Owned<ManuallyDrop<S>> frees the box and does not run the
\* destructor of the S inside it.
AfterBoxDrop(d) == d

\* The epoch collector runs a deferred destruction of a source box.
ReclaimSource(k) ==
    /\ srcBox[k] = "retired"
    /\ srcWait[k] = {}
    /\ srcBox' = [srcBox EXCEPT ![k] = "freed"]
    /\ srcData' = [srcData EXCEPT ![k] = AfterBoxDrop(srcData[k])]
    /\ srcVal' = [srcVal EXCEPT ![k] = 0]
    /\ UNCHANGED ret
    /\ UNCHANGED <<pc, source, value, transform_lock, alive, nSrc, srcWait,
                   valVars, localVars, histVars>>
    /\ UNCHANGED <<stale, seen, valFrom, published, holder, lost>>

\* The epoch collector runs a deferred destruction of a value box (an
\* Owned<T>: the box is freed and the T dropped).
ReclaimValue(j) ==
    /\ valBox[j] = "retired"
    /\ valWait[j] = {}
    /\ valBox' = [valBox EXCEPT ![j] = "freed"]
    /\ valVal' = [valVal EXCEPT ![j] = 0]
    /\ UNCHANGED ret
    /\ UNCHANGED <<pc, source, value, transform_lock, alive, srcVars, nVal, valWait,
                   localVars, histVars>>
    /\ UNCHANGED <<stale, seen, valFrom, published, holder, lost>>

\* ---------------------------------------------------------- destruction
\* The LazyTransform goes out of scope.  The struct has no Drop impl and
\* crossbeam's Atomic<T> does not drop its pointee: no box is touched.
DropLazyTransform ==
    /\ alive
    /\ Pinned = {}
    /\ alive' = FALSE
    /\ UNCHANGED ret
    /\ UNCHANGED <<pc, source, value, transform_lock, heapVars, localVars, histVars>>
    /\ UNCHANGED <<stale, seen, valFrom, published, holder, lost>>

\* --------------------------------------------------------- specification
\* One step of thread t inside get_transformed (the code of get_transformed,
\* try_transform and the latch; what transform_fn does inside is not one).
ThreadStep(t) ==
    \/ TryLock(t)
    \/ SwapSource(t)
    \/ ReadSource(t)
    \/ Transform(t)
    \/ TransformPanic(t)
    \/ SwapValue(t)
    \/ Unlock(t)
    \/ LoadValue(t)
    \/ CloneValue(t)

Next ==
    \/ \E t \in Threads, s \in SourceVals : SetSource(t, s)
    \/ \E t \in Threads : GetStart(t)
    \/ \E t \in Threads : TryLock(t)
    \/ \E t \in Threads : SwapSource(t)
    \/ \E t \in Threads : ReadSource(t)
    \/ \E t \in Threads : ReentrantTryLock(t)
    \/ \E t \in Threads : Transform(t)
    \/ \E t \in Threads : TransformPanic(t)
    \/ \E t \in Threads : SwapValue(t)
    \/ \E t \in Threads : Unlock(t)
    \/ \E t \in Threads : LoadValue(t)
    \/ \E t \in Threads : CloneValue(t)
    \/ \E k \in SrcIds : ReclaimSource(k)
    \/ \E j \in ValIds : ReclaimValue(j)
    \/ DropLazyTransform

Spec == Init /\ [][Next]_vars

\* The LazyTransform is never dropped, every thread keeps calling
\* get_transformed, and every started call gets to take its next step.
LiveNext ==
    \/ \E t \in Threads, s \in SourceVals : SetSource(t, s)
    \/ \E t \in Threads : GetStart(t)
    \/ \E t \in Threads : ThreadStep(t)
    \/ \E t \in Threads : ReentrantTryLock(t)
    \/ \E k \in SrcIds : ReclaimSource(k)
    \/ \E j \in ValIds : ReclaimValue(j)

LiveSpec ==
    /\ Init
    /\ [][LiveNext]_vars
    /\ \A t \in Threads : WF_vars(GetStart(t)) /\ WF_vars(ThreadStep(t))

TypeOK ==
    /\ pc \in [Threads -> {"idle", "try_lock", "swap_source", "read_source",
                           "transform", "swap_value", "unlock", "load_value",
                           "clone_value"}]
    /\ source \in {Null} \cup SrcIds
    /\ value \in {Null} \cup ValIds
    /\ transform_lock \in BOOLEAN
    /\ nSrc \in 0..MaxSources
    /\ nVal \in 0..MaxSources
    /\ local_value \in [Threads -> {Null} \cup ValIds]
    /\ ret \in [Threads -> {None, Panicked} \cup {transform_fn(s) : s \in SourceVals}]
    /\ stale \in [Threads -> BOOLEAN]
    /\ seen \in [Threads -> {Null} \cup ValIds]
    /\ valFrom \in [ValIds -> {0} \cup SrcIds]
    /\ published \subseteq SourceVals
    /\ holder \in {0} \cup Threads
    /\ lost \in [Threads -> BOOLEAN]

\* ---------------------------------------------------------------- claims
\* Between a successful try_lock and the drop of its LightGuard.
InLock(t) == pc[t] \in {"swap_source", "read_source", "transform", "swap_value", "unlock"}

\* C1: at most one thread is between a successful try_lock and the drop of
\* its LightGuard, hence at most one thread is executing transform_fn.
C1_MutualExclusion ==
    /\ Cardinality({t \in Threads : InLock(t)}) <= 1
    /\ Cardinality({t \in Threads : pc[t] = "transform"}) <= 1

\* A thread is inside transform_fn while another one is about to try the latch.
C1_Witness ==
    \E t, u \in Threads : t # u /\ pc[t] = "transform" /\ pc[u] = "try_lock"

\* C2: a published source is handed out by at most one swap of the slot and
\* moved into transform_fn at most once; once a swap has handed it out it is
\* no longer in the slot and at most one thread holds it.
C2_ConsumedAtMostOnce ==
    \A k \in SrcIds :
        /\ srcBox[k] # "double"
        /\ srcData[k] # "dup"
        /\ srcBox[k] \in {"retired", "freed"} => source # k
        /\ Cardinality({t \in Threads : local_source[t] = k}) <= 1

\* A thread owns a drained source while another thread is about to try to
\* drain the slot and a newer source is pending.
C2_Witness ==
    \E t, u \in Threads :
        /\ t # u
        /\ local_source[t] # Null
        /\ pc[u] = "try_lock"
        /\ source # Null

\* C3: a source superseded inside a burst of set_source calls that no
\* get_transformed overlapped is never moved into transform_fn.
C3_Coalescing ==
    \A k \in coalesced : srcData[k] = "inbox"

\* After a burst s1, s2 the last source s2 has been transformed, s1 has not.
C3_Witness ==
    /\ nSrc = 2
    /\ 1 \in coalesced
    /\ srcData[2] = "moved"

\* C4: a get_transformed that ran alone, found a source s pending and got
\* Some(v) from transform_fn(s) has returned Some(v), left the source slot
\* empty, the cached slot holding v and the latch free.
C4_FreshValue ==
    \A t \in Threads :
        (/\ pc[t] = "idle"
         /\ solo[t]
         /\ startVal[t] # 0
         /\ transform_fn(startVal[t]) # None)
        => /\ ret[t] = transform_fn(startVal[t])
           /\ source = Null
           /\ value # Null
           /\ valVal[value] = transform_fn(startVal[t])
           /\ transform_lock = FALSE

\* set_source(2); get => Some(4); set_source(4); get => Some(8).
C4_Witness ==
    \E t \in Threads :
        /\ pc[t] = "idle"
        /\ solo[t]
        /\ startVal[t] = 4
        /\ ret[t] = 8
        /\ nVal = 2
        /\ valVal[value] = 8

\* What a reader gets from cached slot content p.
Dup(p) == IF p = Null THEN None ELSE valVal[p]

\* C5: from the moment a transform declines until the next successful
\* transform, the cached slot is what it was when the source was drained,
\* and the declining call and every call begun later that returns in that
\* period (rather than unwinding from a panic of transform_fn) return a
\* duplicate of that cached value (None if the slot was empty).
C5_StaleOnDecline ==
    [][/\ declVal # NoDecl => value = declVal
       /\ declVal' # NoDecl => value' = declVal'
       /\ \A u \in Threads :
            (stale[u] /\ pc[u] # "idle" /\ pc'[u] = "idle" /\ ret'[u] # Panicked)
            => (declVal # NoDecl /\ ret'[u] = Dup(declVal))]_vars

\* A transform declined over a non-empty cache, and every thread's last
\* call returned the old cached value.
C5_Witness ==
    /\ declVal # NoDecl
    /\ declVal # Null
    /\ nVal = 1
    /\ \A t \in Threads : pc[t] = "idle" /\ ret[t] = valVal[declVal]

\* C6: once a get_transformed of a thread has returned Some, every later
\* get_transformed of that thread returns Some.
C6_MonotonicReads ==
    \A t \in Threads : (pc[t] = "idle" /\ gotSome[t]) => ret[t] # None

\* A call that ran alone and drained a source the transform declines has
\* returned Some.
C6_Witness ==
    \E t \in Threads :
        /\ pc[t] = "idle"
        /\ solo[t]
        /\ startVal[t] = 1
        /\ gotSome[t]
        /\ ret[t] # None

\* C7: set_source(s) makes the new box holding s the content of the source
\* slot whatever the slot held, changes neither the cached slot nor the
\* latch, and can always be called.
C7_SetSourceFrame ==
    [][/\ nSrc' = nSrc + 1
          => /\ source' = nSrc'
             /\ srcVal'[source'] \in SourceVals
             /\ srcBox'[source'] = "live"
             /\ value' = value
             /\ valVal' = valVal
             /\ valBox' = valBox
             /\ transform_lock' = transform_lock
             /\ pc' = pc
       /\ \A t \in Threads, s \in SourceVals :
            (alive /\ pc[t] = "idle" /\ nSrc < MaxSources) => ENABLED SetSource(t, s)]_vars

\* set_source replaced the slot's content while another thread held the
\* latch inside transform_fn.
C7_Witness ==
    \E t \in Threads :
        /\ pc[t] = "transform"
        /\ local_source[t] = 1
        /\ source = 2
        /\ transform_lock

Rank(p) ==
    CASE p = "idle" -> 0
      [] p = "try_lock" -> 1
      [] p = "swap_source" -> 2
      [] p = "read_source" -> 3
      [] p = "transform" -> 4
      [] p = "swap_value" -> 5
      [] p = "unlock" -> 6
      [] p = "load_value" -> 7
      [] p = "clone_value" -> 8

Advance(t) == pc'[t] = "idle" \/ Rank(pc'[t]) > Rank(pc[t])

\* C8: whatever the other threads do (or do not do), a thread inside
\* get_transformed can take its next step, and each of its steps moves it
\* strictly forward, so the call ends within eight own steps; set_source
\* and the start of get_transformed are always possible.
C8_NonBlocking ==
    \A t \in Threads :
        /\ pc[t] # "idle" =>
             /\ ENABLED (ThreadStep(t) /\ Advance(t))
             /\ ~ ENABLED (ThreadStep(t) /\ ~Advance(t))
        /\ (alive /\ pc[t] = "idle") => ENABLED GetStart(t)
        /\ (alive /\ pc[t] = "idle" /\ nSrc < MaxSources) =>
             \A s \in SourceVals : ENABLED SetSource(t, s)

\* The latch holder is inside transform_fn, a source is pending and another
\* thread is on the fallback path.
C8_Witness ==
    \E t, u \in Threads :
        /\ t # u
        /\ pc[t] = "transform"
        /\ pc[u] = "load_value"
        /\ source # Null

\* All operations have finished and all deferred destructions have run.
Quiescent ==
    /\ Pinned = {}
    /\ \A k \in SrcIds : srcBox[k] # "retired"
    /\ \A j \in ValIds : valBox[j] # "retired"

\* C9: at quiescence every published source was moved into transform_fn,
\* or had its box freed and its destructor run exactly once, or is the
\* pending one; every value box is the cached one or was freed exactly once.
C9_NoLeakNoDoubleRelease ==
    Quiescent =>
        /\ \A k \in 1..nSrc :
            \/ srcData[k] = "moved" /\ srcBox[k] = "freed"
            \/ srcData[k] = "dropped" /\ srcBox[k] = "freed"
            \/ srcData[k] = "inbox" /\ srcBox[k] = "live" /\ source = k
        /\ \A j \in 1..nVal :
            \/ valBox[j] = "live" /\ value = j
            \/ valBox[j] = "freed" /\ value # j

\* C10: once the LazyTransform is destroyed, the source that was pending and
\* the value that was cached have been released.
C10_ReleaseOnDestruction ==
    ~alive =>
        /\ source # Null => (srcBox[source] \in {"retired", "freed"} /\ srcData[source] = "dropped")
        /\ value # Null => valBox[value] \in {"retired", "freed"}

\* C11: a retired box is freed only when no thread pinned at its retirement
\* is still pinned, so no thread reads a freed box: the source box a thread is
\* about to read in try_transform (already handed to defer_destroy) and the
\* value box a thread is about to clone in the fallback are allocated.
C11_NoUseAfterReclaim ==
    \A t \in Threads :
        /\ pc[t] = "read_source" =>
             /\ local_source[t] # Null
             /\ srcBox[local_source[t]] = "retired"
             /\ t \in srcWait[local_source[t]]
        /\ (pc[t] = "clone_value" /\ local_value[t] # Null) =>
             valBox[local_value[t]] \in {"live", "retired"}
        /\ \A k \in SrcIds : srcBox[k] = "freed" => srcWait[k] = {}
        /\ \A j \in ValIds : valBox[j] = "freed" => valWait[j] = {}

\* A thread is about to clone a value box that another thread has swapped
\* out and retired meanwhile, and that other thread's call is over.
C11_Witness ==
    \E t, u \in Threads :
        /\ pc[t] = "clone_value"
        /\ local_value[t] # Null
        /\ value # local_value[t]
        /\ valBox[local_value[t]] = "retired"
        /\ valWait[local_value[t]] = {t}
        /\ u # t
        /\ pc[u] = "idle"

\* C12: in every reachable state the latch is held iff exactly one thread is
\* between its successful try_lock and the drop of its LightGuard; so the
\* latch is free again whenever the thread that claimed it has left
\* try_transform, whether the drained slot was empty, transform_fn declined,
\* transform_fn panicked, or a new value was published.
C12_LatchReleasedOnExit ==
    /\ transform_lock <=> Cardinality({t \in Threads : InLock(t)}) = 1
    /\ Cardinality({t \in Threads : InLock(t)}) <= 1
    /\ transform_lock => (holder # 0 /\ InLock(holder))

\* A call has unwound out of a panic of transform_fn, and the latch is free
\* with no thread in the claimed section.
C12_Witness ==
    \E t \in Threads :
        /\ pc[t] = "idle"
        /\ ret[t] = Panicked
        /\ ~transform_lock
        /\ \A u \in Threads : ~InLock(u)

\* C13: the cached value slot starts empty; every step that changes it is
\* the value.swap of the thread that holds the latch, made after transform_fn
\* returned Some(v) for the source that thread drained, and it stores a box
\* holding v; no step makes a non-empty slot empty.
C13_CacheMonotone ==
    /\ value = Null
    /\ [][/\ value # Null => value' # Null
          /\ value' # value =>
               \E t \in Threads :
                   /\ pc[t] = "swap_value"
                   /\ transform_lock
                   /\ holder = t
                   /\ \A u \in Threads \ {t} : ~InLock(u)
                   /\ newval[t] \notin {None, Panicked}
                   /\ newval[t] = transform_fn(source_data[t])
                   /\ value' # Null
                   /\ valVal'[value'] = newval[t]
                   /\ valBox'[value'] = "live"]_vars

\* The slot has been written a second time: it holds the second value box,
\* whose writer still holds the latch, and the first box is retired.
C13_Witness ==
    \E t \in Threads :
        /\ pc[t] = "unlock"
        /\ value = 2
        /\ valVal[2] = newval[t]
        /\ valBox[1] = "retired"

\* The shared cells a read-only path must leave alone: the pending-source
\* slot, the cached value slot, the latch, and the contents of every box.
FallbackFrame == UNCHANGED <<source, value, transform_lock, srcVal, srcData, valVal>>

\* C14: a get_transformed whose pre-check sees an empty pending-source slot,
\* or whose try_lock fails, goes to the fallback without entering the claimed
\* section (so without calling transform_fn); none of its steps changes the
\* pending-source slot, the cached value slot or the latch; it loads the
\* cached value slot once and returns a duplicate of the box it loaded, None
\* if the slot was empty, and None on an instance that never had a source.
C14_FallbackPureRead ==
    [][\A t \in Threads :
         /\ (pc[t] = "idle" /\ pc'[t] # "idle" /\ source = Null) =>
              (pc'[t] = "load_value" /\ FallbackFrame)
         /\ (pc[t] = "try_lock" /\ pc'[t] # "try_lock" /\ transform_lock) =>
              (pc'[t] = "load_value" /\ FallbackFrame)
         /\ (pc[t] = "load_value" /\ pc'[t] # "load_value") =>
              /\ pc'[t] = "clone_value"
              /\ local_value'[t] = value
              /\ FallbackFrame
         /\ (pc[t] = "clone_value" /\ pc'[t] # "clone_value") =>
              /\ pc'[t] = "idle"
              /\ ret'[t] = Dup(local_value[t])
              /\ nSrc = 0 => ret'[t] = None
              /\ FallbackFrame]_vars

\* A thread that lost the latch race has loaded a non-empty cached value
\* slot while the latch holder is inside transform_fn.
C14_Witness ==
    \E t, u \in Threads :
        /\ pc[t] = "clone_value"
        /\ lost[t]
        /\ local_value[t] # Null
        /\ pc[u] = "transform"

\* C15: try_transform returns Some(v) exactly when its try_lock found the
\* latch free, its swap drained a box holding s, and transform_fn(s) is
\* Some(v); a taken latch makes it return None at once; when it claimed the
\* latch it returns None only after draining an empty slot or after
\* transform_fn declined; and in each case the latch is free when it has
\* returned, with get_transformed going on to the cached value after a None.
C15_TryTransformResult ==
    [][\A t \in Threads :
         /\ (pc[t] = "try_lock" /\ pc'[t] # "try_lock") =>
              /\ transform_lock => pc'[t] = "load_value"
              /\ ~transform_lock => pc'[t] = "swap_source"
         /\ (pc[t] = "swap_source" /\ pc'[t] # "swap_source") =>
              /\ local_source'[t] = source
              /\ source' = Null
         /\ (pc[t] = "read_source" /\ pc'[t] # "read_source") =>
              source_data'[t] = srcVal[local_source[t]]
         /\ (pc[t] = "unlock" /\ pc'[t] # "unlock") =>
              LET drained == local_source[t] # Null
                  r == transform_fn(source_data[t])
                  some == pc'[t] = "idle" /\ ret'[t] \notin {None, Panicked}
              IN /\ ~transform_lock'
                 /\ some <=> (drained /\ r # None)
                 /\ some => ret'[t] = r
                 /\ pc'[t] = "load_value" => (~drained \/ r = None)
                 /\ ~drained => pc'[t] = "load_value"
                 /\ pc'[t] \in {"idle", "load_value"}]_vars

\* A thread claimed the latch and drained an empty slot, because the source
\* it saw at its pre-check was consumed by another call that returned Some.
C15_Witness ==
    \E t, u \in Threads :
        /\ t # u
        /\ pc[t] = "unlock"
        /\ local_source[t] = Null
        /\ pc[u] = "idle"
        /\ ret[u] \notin {None, Panicked}
        /\ nSrc = 1

\* C16: when transform_fn declines the source a thread drained, that source
\* is not in the pending-source slot and the cached value is not touched;
\* a source that has been moved out of its box is never in the slot again,
\* never drained again and never moved out (so never transformed) again; and
\* every later drain takes a source published by a later set_source.
C16_DeclinedSourceLost ==
    [][/\ \A t \in Threads :
            (pc[t] = "transform" /\ pc'[t] = "unlock" /\ newval'[t] = None) =>
                /\ srcData[local_source[t]] = "moved"
                /\ source' # local_source[t]
                /\ value' = value
       /\ \A k \in SrcIds :
            srcData[k] = "moved" =>
                /\ source' # k
                /\ srcData'[k] = "moved"
                /\ \A u \in Threads : local_source'[u] = k => local_source[u] = k
       /\ \A t \in Threads :
            (pc[t] = "swap_source" /\ pc'[t] = "read_source") =>
                \A k \in SrcIds : srcData[k] = "moved" => local_source'[t] > k]_vars

\* The first source was declined and no transform has succeeded since; a
\* thread is now inside transform_fn with the second source.
C16_Witness ==
    \E t \in Threads :
        /\ pc[t] = "transform"
        /\ local_source[t] = 2
        /\ declVal # NoDecl
        /\ srcData[1] = "moved"
        /\ value = Null

\* The cached value slot holds v.
Cached(v) == value # Null /\ valVal[value] = v

\* C17: once the last set_source has been made, a pending source is
\* eventually moved out of the slot; if transform_fn gives Some(v) for it,
\* then from some point on the cached value slot holds v for good and every
\* get_transformed that has returned returned Some(v).  (Threads keep
\* calling and every started call keeps stepping: LiveSpec.)
C17_EventualPropagation ==
    /\ \A k \in SrcIds :
         (source = k /\ nSrc = MaxSources) ~> (source = Null /\ srcData[k] = "moved")
    /\ \A s \in SourceVals :
         (source # Null /\ nSrc = MaxSources /\ srcVal[source] = s /\ transform_fn(s) # None)
         ~> [](/\ Cached(transform_fn(s))
               /\ \A t \in Threads : pc[t] = "idle" => ret[t] = transform_fn(s))

\* The last source has been transformed and its result returned to one
\* thread, while another thread, delayed on the fallback path, still holds
\* the pointer to the previous cached value.
C17_Witness ==
    \E t, u \in Threads :
        /\ nSrc = MaxSources
        /\ source = Null
        /\ value # Null
        /\ valFrom[value] = MaxSources
        /\ pc[t] = "idle"
        /\ ret[t] = valVal[value]
        /\ pc[u] = "clone_value"
        /\ local_value[u] # value

\* C18: numbering sources by the order of their set_source swaps, the value
\* boxes written to the cached value slot come from strictly newer and
\* newer sources, and the box a thread's get_transformed returns is never
\* from an older source than the box its previous call returned.
C18_PublicationOrder ==
    [][/\ \A i, j \in 1..nVal' : i < j => valFrom'[i] < valFrom'[j]
       /\ value' # value =>
            /\ valFrom'[value'] \in 1..nSrc
            /\ value # Null => valFrom'[value'] > valFrom[value]
       /\ \A t \in Threads :
            (seen'[t] # seen[t] /\ seen[t] # Null) =>
                /\ seen'[t] # Null
                /\ valFrom'[seen'[t]] > valFrom[seen[t]]]_vars

\* A thread whose previous call returned the first source's result is about
\* to return the second source's result.
C18_Witness ==
    \E t \in Threads :
        /\ pc[t] = "clone_value"
        /\ seen[t] = 1
        /\ local_value[t] = 2
        /\ valFrom[1] = 1
        /\ valFrom[2] = 2

\* The Some results transform_fn gives for the sources in P.
Results(P) == {transform_fn(s) : s \in P} \ {None}

\* C19: every value held in a value box, and every Some(v) a get_transformed
\* has returned, is transform_fn(s) for an s already passed to set_source;
\* and a get_transformed that returned None had loaded an empty cached value
\* slot.
C19_NoThinAir ==
    /\ \A j \in ValIds :
         valBox[j] \in {"live", "retired"} => valVal[j] \in Results(published)
    /\ value # Null => valBox[value] = "live"
    /\ \A t \in Threads :
         /\ newval[t] \notin {None, Panicked} => newval[t] \in Results(published)
         /\ ret[t] \notin {None, Panicked} => ret[t] \in Results(published)
         /\ (pc[t] = "idle" /\ ret[t] = None) => seen[t] = Null

\* One source was declined and one transformed; one thread has returned the
\* transformed value and the other returned None before it was published.
C19_Witness ==
    \E t, u \in Threads :
        /\ published = {1, 4}
        /\ pc[t] = "idle"
        /\ ret[t] = 8
        /\ pc[u] = "idle"
        /\ ret[u] = None
        /\ value # Null

\* C20: a try_lock made while the latch is held (by a thread racing with the
\* holder, or by the holder's own transform_fn calling get_transformed)
\* leaves the latch held, yields no guard, so its caller goes to the
\* fallback; the latch goes from held to free only when the thread whose
\* try_lock took it leaves the claimed section, and is held until then.
C20_FailedTryLock ==
    [][/\ \A t \in Threads :
            (pc[t] = "try_lock" /\ pc'[t] # "try_lock" /\ transform_lock) =>
                /\ transform_lock'
                /\ holder' = holder
                /\ pc'[t] = "load_value"
       /\ \A t \in Threads :
            (lost'[t] /\ ~lost[t]) =>
                /\ transform_lock /\ transform_lock'
                /\ holder' = holder
                /\ \/ pc'[t] = "load_value" /\ holder # t
                   \/ pc'[t] = "transform" /\ pc[t] = "transform" /\ holder = t
       /\ (transform_lock /\ ~transform_lock') =>
            /\ holder # 0
            /\ pc[holder] = "unlock"
            /\ pc'[holder] # "unlock"
       /\ holder # 0 => transform_lock
       /\ holder' # 0 => transform_lock'
       /\ \A t \in Threads : InLock(t) => holder = t]_vars

\* The latch holder's transform_fn has made a nested get_transformed whose
\* try_lock failed, and another thread's try_lock has failed too; the latch
\* is still held by the holder.
C20_Witness ==
    \E t, u \in Threads :
        /\ t # u
        /\ pc[t] = "transform"
        /\ lost[t]
        /\ holder = t
        /\ transform_lock
        /\ pc[u] = "load_value"
        /\ lost[u]

====
